---- MODULE Spec2Model ----
(***************************************************************************)
(* pycket/session.py: SessionManager, the Redis-backed session store of a  *)
(* Tornado request handler.                                                *)
(*                                                                         *)
(* Every request has its own handler and its own SessionManager.  A store  *)
(* call (dataset.get / dataset.set / dataset.expire) is atomic in Redis;   *)
(* a mutating operation is three steps (load + callback, dataset.set,      *)
(* dataset.expire) that other requests and the passage of time interleave  *)
(* with.  A read operation is one step.                                    *)
(***************************************************************************)
EXTENDS Integers, Sequences, FiniteSets, TLC

(* ------------------------------ bounds --------------------------------- *)
PreIssued   == 1      \* identifiers that clients hold when the run starts
MaxIds      == 4      \* identifiers in all: uuid4 hands out the others
MaxNames    == 2      \* longest *names tuple passed to delete
MaxDb       == 2      \* datasets of the Redis server are 0..MaxDb

(* ------------------------- program constants --------------------------- *)
DB             == 0                  \* SessionManager.DB
EXPIRE_SECONDS == 24 * 60 * 60       \* SessionManager.EXPIRE_SECONDS
DB_SETTING     == "db_sessions"      \* SessionManager.DB_SETTING
NOTIFICATION_DB_SETTING == "db_notifications"  \* NotificationManager.DB_SETTING

(* ------------------------------ values --------------------------------- *)
Arrival  == <<"h1", "h2">>           \* the requests of a run, as they arrive
Handlers == {Arrival[n] : n \in DOMAIN Arrival}
Ids      == 1 .. MaxIds              \* the strings str(uuid4()) can return
NoCookie == 0                        \* get_secure_cookie(...) is None
DBs      == 0 .. MaxDb

Keys     == {"a", "b"}               \* session key names
NoneVal  == "None"                   \* Python's None, a storable value
Values   == {NoneVal, "x"}           \* picklable values
Defaults == {NoneVal, "d"}           \* the `default` argument of get
Missing  == "<missing>"              \* the key is not in the dict

\* A session dict: Missing marks the keys that are not in it.
Sessions     == [Keys -> Values \cup {Missing}]
EmptySession == [k \in Keys |-> Missing]
KeysOf(s)    == {k \in Keys : s[k] # Missing}

\* The *names tuples of delete, duplicates included.
NameTuples == UNION {[1 .. n -> Keys] : n \in 0 .. MaxNames}

\* Time advances in steps of half the idle timeout.
TickSeconds == EXPIRE_SECONDS \div 2
NoTTL       == -1                    \* Redis TTL of a key without expiry
Never       == 0 - 1                 \* idle time of a key never written

(* ---------------------- application settings --------------------------- *)
\* A keyword dictionary of the 'pycket_redis' setting: Unset marks absent keys.
RedisKeys == {"db", DB_SETTING, NOTIFICATION_DB_SETTING, "host"}
Unset     == -1
NoDict    == [k \in RedisKeys |-> Unset]
Dict(db, dbs, dbn, host) ==
    [k \in RedisKeys |-> CASE k = "db" -> db
                           [] k = DB_SETTING -> dbs
                           [] k = NOTIFICATION_DB_SETTING -> dbn
                           [] OTHER -> host]

\* The configurations an application may start with: no 'pycket_redis' at
\* all, or a dictionary with some of the keys.
RedisConfigs ==
    { [present |-> FALSE, d |-> NoDict],
      [present |-> TRUE,  d |-> NoDict],
      [present |-> TRUE,  d |-> Dict(1, 2, 1, 7)],
      [present |-> TRUE,  d |-> Dict(1, Unset, Unset, Unset)] }
\* The configuration of the runs that do not vary it.
AppConfig == [present |-> TRUE, d |-> Dict(1, 2, 1, 7)]

\* A keyword dictionary of the 'pycket_cookies' setting: Missing marks the
\* keys that are not in it.
CookieKeys == {"expires", "expires_days", "domain"}
\* The application's cookie settings: only 'expires_days' is set.
AppCookies ==
    [present |-> TRUE,
     d |-> [k \in CookieKeys |-> IF k = "expires_days" THEN "30" ELSE Missing]]

(* ------------------------------- state --------------------------------- *)
VARIABLES
    pycket_redis,   \* handler.settings['pycket_redis'], shared by all handlers
    pycket_cookies, \* handler.settings['pycket_cookies'], shared likewise
    store,          \* the Redis server: dataset -> key -> record
    nextId,         \* the next value str(uuid4()) returns
    issued,         \* identifiers that clients hold in a signed cookie
    pc,             \* per handler: "none", "ready", "loaded", "written", "done"
    inCookie,       \* per handler: the PYCKET_ID cookie of the request
    outCookie,      \* per handler: the PYCKET_ID cookie set on the response
    manager,        \* per handler: its '__session_manager' attribute
    dataset,        \* per SessionManager: self.dataset
    session,        \* per handler: the dict held inside __change_session
    sid,            \* per handler: session_id inside __set_session_in_db
    cur,            \* per handler: the set or delete call in progress
    last,           \* the call that returned in the latest step, if any
    minted,         \* history: identifiers created by this SessionManager
    used,           \* history: the keys of its store accesses
    idle            \* history: seconds since the last write call, per key,
                    \* counted up to EXPIRE_SECONDS

vars == <<pycket_redis, pycket_cookies, store, nextId, issued, pc, inCookie,
          outCookie, manager, dataset, session, sid, cur, last, minted, used,
          idle>>

(* ------------------------- pickle and Redis ---------------------------- *)
\* pickle.dumps / pickle.loads: the stored bytes are not the dict itself.
dumps(s) == <<"pickle", s>>
loads(b) == b[2]

\* A key of a dataset: absent, or bytes with a TTL (NoTTL: no expiry).
NoRecord    == [present |-> FALSE, raw |-> dumps(EmptySession), ttl |-> NoTTL]
EmptyStore  == [d \in DBs |-> [i \in Ids |-> NoRecord]]

\* dataset.get(key): None (present = FALSE) or the bytes.
RedisGet(st, db, key) == st[db][key]
\* dataset.set(key, bytes): SET replaces the value and drops any TTL.
RedisSet(st, db, key, bytes) ==
    [st EXCEPT ![db][key] = [present |-> TRUE, raw |-> bytes, ttl |-> NoTTL]]
\* dataset.expire(key, seconds): sets the TTL of an existing key only.
RedisExpire(st, db, key, seconds) ==
    IF st[db][key].present
    THEN [st EXCEPT ![db][key].ttl = seconds]
    ELSE st

(* --------------------------- SessionManager ---------------------------- *)
\* __to_dict
to_dict(raw_session) ==
    IF ~raw_session.present THEN EmptySession ELSE loads(raw_session.raw)

\* Mutant: 'db' is assigned only when the dictionary has none
\* (redis_settings.setdefault('db', ...)).
redis_settings_dict_setdefault(cfg) ==
    LET redis_settings == IF cfg.present THEN cfg.d ELSE NoDict
    IN  IF redis_settings["db"] # Unset THEN redis_settings
        ELSE [redis_settings EXCEPT !["db"] =
                IF redis_settings[DB_SETTING] # Unset
                THEN redis_settings[DB_SETTING] ELSE DB]

\* __redis_settings, line 158-159: the dictionary after 'db' is assigned.
redis_settings_dict(cfg) ==
    LET redis_settings == IF cfg.present THEN cfg.d ELSE NoDict
    IN  [redis_settings EXCEPT !["db"] =
            IF redis_settings[DB_SETTING] # Unset
            THEN redis_settings[DB_SETTING] ELSE DB]

\* Mutant: only the sessions setting is removed from the copy.
clean_redis_settings_sessions_only(redis_settings) ==
    [k \in RedisKeys |->
        IF k = DB_SETTING THEN Unset ELSE redis_settings[k]]

\* __clean_redis_settings: a copy without the two custom dataset settings.
clean_redis_settings(redis_settings) ==
    [k \in RedisKeys |->
        IF k \in {DB_SETTING, NOTIFICATION_DB_SETTING}
        THEN Unset ELSE redis_settings[k]]

\* __redis_settings: the keyword arguments given to redis.Redis.
redis_settings(cfg) == clean_redis_settings(redis_settings_dict(cfg))

\* What __redis_settings leaves in handler.settings: the dictionary that
\* settings.get returned is the application's own when the key is present.
settings_after(cfg) ==
    IF cfg.present THEN [cfg EXCEPT !.d = redis_settings_dict(cfg)] ELSE cfg

\* A SessionManager instance: the handler it was constructed with, and
\* which of the instances constructed for that handler it is.
NoManager == [handler |-> "-", n |-> 0]

\* Mutant: the property constructs a SessionManager at every access.
create_mixin_always(h) == [handler |-> h, n |-> manager[h].n + 1]

\* create_mixin: the attribute is set on the first access and returned.
create_mixin(h) ==
    IF manager[h] = NoManager THEN [handler |-> h, n |-> 1] ELSE manager[h]

\* SessionMixin.session: the access handler.session that every call starts
\* with.
SessionProperty(h) == manager' = [manager EXCEPT ![h] = create_mixin(h)]

NoDataset == [open |-> FALSE, params |-> NoDict]

\* __setup_dataset: self.dataset after the call.
setup_dataset(h) ==
    IF ~dataset[h].open
    THEN [open |-> TRUE, params |-> redis_settings(pycket_redis)]
    ELSE dataset[h]

\* The dataset number the connection of handler h talks to.
DbOf(h) == setup_dataset(h).params["db"]

\* The step of __setup_dataset on the shared state.
SetupDataset(h) ==
    /\ dataset' = [dataset EXCEPT ![h] = setup_dataset(h)]
    /\ pycket_redis' = IF ~dataset[h].open
                       THEN settings_after(pycket_redis) ELSE pycket_redis

\* __cookie_settings: the dictionary after the two setdefault calls.
cookie_settings(cfg) ==
    [k \in CookieKeys |->
        IF k \in {"expires", "expires_days"} /\ cfg.d[k] = Missing
        THEN NoneVal ELSE cfg.d[k]]

\* What __cookie_settings leaves in handler.settings: the dictionary that
\* settings.get returned is the application's own when the key is present.
cookie_settings_after(cfg) ==
    IF cfg.present THEN [cfg EXCEPT !.d = cookie_settings(cfg)] ELSE cfg

\* __create_session_id: str(uuid4()).
create_session_id == nextId

\* __get_session_id: the cookie of the request, or a new identifier.
get_session_id(h) ==
    IF inCookie[h] = NoCookie THEN create_session_id ELSE inCookie[h]

\* Mutant: set_secure_cookie keeps the first cookie it was given for the
\* response instead of replacing it with the latest.
GetSessionId_first_cookie(h) ==
    /\ inCookie[h] # NoCookie \/ nextId <= MaxIds
    /\ IF inCookie[h] = NoCookie
       THEN /\ nextId' = nextId + 1
            /\ outCookie' = [outCookie EXCEPT ![h] =
                                IF @ = NoCookie THEN create_session_id ELSE @]
            /\ minted' = [minted EXCEPT ![h] = @ + 1]
            /\ pycket_cookies' = cookie_settings_after(pycket_cookies)
       ELSE UNCHANGED <<nextId, outCookie, minted, pycket_cookies>>
    /\ used' = [used EXCEPT ![h] = @ \cup {get_session_id(h)}]

\* The handler's side of __get_session_id: a new identifier is taken from
\* uuid4 and set_secure_cookie puts it on the response.
GetSessionId(h) ==
    /\ inCookie[h] # NoCookie \/ nextId <= MaxIds
    /\ IF inCookie[h] = NoCookie
       THEN /\ nextId' = nextId + 1
            /\ outCookie' = [outCookie EXCEPT ![h] = create_session_id]
            /\ minted' = [minted EXCEPT ![h] = @ + 1]
            /\ pycket_cookies' = cookie_settings_after(pycket_cookies)
       ELSE UNCHANGED <<nextId, outCookie, minted, pycket_cookies>>
    /\ used' = [used EXCEPT ![h] = @ \cup {get_session_id(h)}]

\* __get_session_from_db: the dict the store holds for the identifier.
get_session_from_db(h) ==
    to_dict(RedisGet(store, DbOf(h), get_session_id(h)))

(* ------------------------- outcome of a call --------------------------- *)
\* A store call a SessionManager call has made, and how it ended: Raised is
\* a redis exception (the server is unreachable, or the call timed out).
Ok(c)      == <<c, "ok">>
Raised(c)  == <<c, "raised">>
StoreError == "redis.RedisError"

\* The arguments of the set or delete call a handler is inside of, and the
\* store calls it has made so far.
NoCall == [op |-> "none", name |-> "-", val |-> Missing, names |-> << >>,
           calls |-> << >>]
\* A call that has returned: its arguments, what it returned (val, ks) or
\* raised (err), the store calls it made; expect is what the claims compare
\* val with.
NoOp == [h |-> "-", op |-> "none", name |-> "-", names |-> << >>,
         default |-> NoneVal, val |-> Missing, ks |-> {}, err |-> "none",
         expect |-> Missing, calls |-> << >>]
Reads == {"get", "getitem", "contains", "keys"}

(* ------------------------------ requests ------------------------------- *)
Init ==
    /\ pycket_redis = AppConfig
    /\ pycket_cookies = AppCookies
    /\ store = EmptyStore
    /\ nextId = PreIssued + 1
    /\ issued = 1 .. PreIssued
    /\ pc = [h \in Handlers |-> "none"]
    /\ inCookie = [h \in Handlers |-> NoCookie]
    /\ outCookie = [h \in Handlers |-> NoCookie]
    /\ manager = [h \in Handlers |-> NoManager]
    /\ dataset = [h \in Handlers |-> NoDataset]
    /\ session = [h \in Handlers |-> EmptySession]
    /\ sid = [h \in Handlers |-> NoCookie]
    /\ cur = [h \in Handlers |-> NoCall]
    /\ last = NoOp
    /\ minted = [h \in Handlers |-> 0]
    /\ used = [h \in Handlers |-> {}]
    /\ idle = [i \in Ids |-> Never]

\* A request arrives: Tornado creates the handler, and SessionMixin.session
\* creates its SessionManager (__init__).  A handler serves one request, and
\* the requests are named in the order they arrive in.  The cookie is one a
\* client holds, or none.  Requests that carry a cookie overlap each other;
\* the request of a client without a cookie is run on its own, because the
\* identifiers it uses are new and no other request can have them.
BeginRequest(h, c) ==
    /\ pc[h] = "none"
    /\ \A n \in DOMAIN Arrival :
          Arrival[n] = h => \A m \in 1 .. n - 1 : pc[Arrival[m]] # "none"
    /\ c \in {NoCookie} \cup issued
    /\ \A g \in Handlers \ {h} :
          \/ pc[g] \in {"none", "done"}
          \/ c # NoCookie /\ inCookie[g] # NoCookie
    /\ pc' = [pc EXCEPT ![h] = "ready"]
    /\ inCookie' = [inCookie EXCEPT ![h] = c]
    /\ last' = NoOp
    /\ UNCHANGED <<pycket_redis, pycket_cookies, store, nextId, issued,
                   outCookie, manager, dataset, session, sid, cur, minted,
                   used, idle>>

\* The response is sent: the client now holds the cookie that was set, and
\* the handler with its SessionManager is gone.
EndRequest(h) ==
    /\ pc[h] = "ready"
    /\ issued' = issued \cup ({outCookie[h]} \ {NoCookie})
    /\ pc' = [pc EXCEPT ![h] = "done"]
    /\ inCookie' = [inCookie EXCEPT ![h] = NoCookie]
    /\ outCookie' = [outCookie EXCEPT ![h] = NoCookie]
    /\ manager' = [manager EXCEPT ![h] = NoManager]
    /\ dataset' = [dataset EXCEPT ![h] = NoDataset]
    /\ last' = NoOp
    /\ minted' = [minted EXCEPT ![h] = 0]
    /\ used' = [used EXCEPT ![h] = {}]
    /\ UNCHANGED <<pycket_redis, pycket_cookies, store, nextId, session,
                   sid, cur, idle>>

(* ---------------------------- read operations -------------------------- *)
\* Mutant: the load also refreshes the TTL of the key it reads.
GetSessionFromDb_refresh(h) ==
    /\ GetSessionId(h)
    /\ SetupDataset(h)
    /\ store' = RedisExpire(store, DbOf(h), get_session_id(h), EXPIRE_SECONDS)

\* Mutant: the load creates the record of a session that has none.
GetSessionFromDb_create(h) ==
    /\ GetSessionId(h)
    /\ SetupDataset(h)
    /\ store' = IF RedisGet(store, DbOf(h), get_session_id(h)).present
                THEN store
                ELSE RedisSet(store, DbOf(h), get_session_id(h),
                              dumps(EmptySession))

\* The step of __get_session_from_db: the identifier is resolved, the
\* connection is set up, and one dataset.get is made.
GetSessionFromDb(h) ==
    /\ GetSessionId(h)
    /\ SetupDataset(h)
    /\ UNCHANGED store

\* dict.get(name, default)
DictGet(s, name, default) == IF s[name] # Missing THEN s[name] ELSE default

\* SessionManager.get
get(h, name, default) ==
    /\ pc[h] = "ready"
    /\ SessionProperty(h)
    /\ GetSessionFromDb(h)
    /\ last' = [NoOp EXCEPT !.h = h, !.op = "get", !.name = name,
                   !.default = default, !.calls = <<Ok("get")>>,
                   !.val = DictGet(get_session_from_db(h), name, default)]
    /\ UNCHANGED <<issued, pc, inCookie, session, sid, cur, idle>>

\* SessionManager.keys
keys(h) ==
    /\ pc[h] = "ready"
    /\ SessionProperty(h)
    /\ GetSessionFromDb(h)
    /\ last' = [NoOp EXCEPT !.h = h, !.op = "keys",
                   !.calls = <<Ok("get")>>,
                   !.ks = KeysOf(get_session_from_db(h))]
    /\ UNCHANGED <<issued, pc, inCookie, session, sid, cur, idle>>

\* SessionManager.__getitem__: self.get(key), and KeyError when that is None.
getitem(h, key) ==
    /\ pc[h] = "ready"
    /\ SessionProperty(h)
    /\ GetSessionFromDb(h)
    /\ LET value == DictGet(get_session_from_db(h), key, NoneVal)
       IN  last' = [NoOp EXCEPT !.h = h, !.op = "getitem", !.name = key,
                       !.calls = <<Ok("get")>>,
                       !.val = IF value = NoneVal THEN Missing ELSE value,
                       !.err = IF value = NoneVal THEN "KeyError" ELSE "none",
                       !.expect = get_session_from_db(h)[key]]
    /\ UNCHANGED <<issued, pc, inCookie, session, sid, cur, idle>>

\* SessionManager.__contains__
contains(h, key) ==
    /\ pc[h] = "ready"
    /\ SessionProperty(h)
    /\ GetSessionFromDb(h)
    /\ last' = [NoOp EXCEPT !.h = h, !.op = "contains", !.name = key,
                   !.calls = <<Ok("get")>>,
                   !.val = IF get_session_from_db(h)[key] # Missing
                           THEN "True" ELSE "False"]
    /\ UNCHANGED <<issued, pc, inCookie, session, sid, cur, idle>>

(* -------------------------- mutating operations ------------------------ *)
\* The callback of set: session[name] = value.
set_change(s, name, value) == [s EXCEPT ![name] = value]

\* The callback of delete, line 86: the given names that are keys of the
\* session, in the order and as many times as they were given.
names_in_common(s, names) == SelectSeq(names, LAMBDA n : n \in KeysOf(s))

\* The callback of delete, lines 87-88: del session[name] for each of them;
\* del of a key that is no longer in the dict raises KeyError.
RECURSIVE del_each(_, _)
del_each(s, names) ==
    IF names = << >> THEN [session |-> s, err |-> "none"]
    ELSE IF s[Head(names)] = Missing
         THEN [session |-> s, err |-> "KeyError"]
         ELSE del_each([s EXCEPT ![Head(names)] = Missing], Tail(names))

delete_change(s, names) == del_each(s, names_in_common(s, names))

\* SessionManager.set up to the end of the callback: __change_session loads
\* the session and applies the change to the dict in memory.
set(h, name, value) ==
    /\ pc[h] = "ready"
    /\ SessionProperty(h)
    /\ GetSessionFromDb(h)
    /\ session' = [session EXCEPT ![h] =
                      set_change(get_session_from_db(h), name, value)]
    /\ pc' = [pc EXCEPT ![h] = "loaded"]
    /\ cur' = [cur EXCEPT ![h] =
                  [NoCall EXCEPT !.op = "set", !.name = name, !.val = value,
                                 !.calls = <<Ok("get")>>]]
    /\ last' = NoOp
    /\ UNCHANGED <<issued, inCookie, sid, idle>>

\* SessionManager.delete up to the end of the callback.  A KeyError raised
\* by the callback leaves __change_session before anything is saved.
delete(h, names) ==
    /\ pc[h] = "ready"
    /\ SessionProperty(h)
    /\ GetSessionFromDb(h)
    /\ LET r == delete_change(get_session_from_db(h), names)
       IN  IF r.err = "none"
           THEN /\ session' = [session EXCEPT ![h] = r.session]
                /\ pc' = [pc EXCEPT ![h] = "loaded"]
                /\ cur' = [cur EXCEPT ![h] =
                       [NoCall EXCEPT !.op = "delete", !.names = names,
                                      !.calls = <<Ok("get")>>]]
                /\ last' = NoOp
           ELSE /\ last' = [NoOp EXCEPT !.h = h, !.op = "delete",
                                        !.names = names, !.err = r.err,
                                        !.calls = <<Ok("get")>>]
                /\ UNCHANGED <<session, pc, cur>>
    /\ UNCHANGED <<issued, inCookie, sid, idle>>

\* Mutant: the save merges the dict into the stored one, key by key.
set_session_in_db_set_merge(h) ==
    /\ pc[h] = "loaded"
    /\ GetSessionId(h)
    /\ SetupDataset(h)
    /\ sid' = [sid EXCEPT ![h] = get_session_id(h)]
    /\ store' = RedisSet(store, DbOf(h), get_session_id(h),
                         dumps([k \in Keys |->
                                  IF session[h][k] # Missing THEN session[h][k]
                                  ELSE get_session_from_db(h)[k]]))
    /\ pc' = [pc EXCEPT ![h] = "written"]
    /\ idle' = [idle EXCEPT ![get_session_id(h)] = 0]
    /\ cur' = [cur EXCEPT ![h].calls = Append(@, Ok("set"))]
    /\ last' = NoOp
    /\ UNCHANGED <<issued, inCookie, manager, session>>

\* __set_session_in_db up to dataset.set: the identifier is resolved again,
\* the dict is pickled and written under it.
set_session_in_db_set(h) ==
    /\ pc[h] = "loaded"
    /\ GetSessionId(h)
    /\ SetupDataset(h)
    /\ sid' = [sid EXCEPT ![h] = get_session_id(h)]
    /\ store' = RedisSet(store, DbOf(h), get_session_id(h),
                         dumps(session[h]))
    /\ pc' = [pc EXCEPT ![h] = "written"]
    /\ idle' = [idle EXCEPT ![get_session_id(h)] = 0]
    /\ cur' = [cur EXCEPT ![h].calls = Append(@, Ok("set"))]
    /\ last' = NoOp
    /\ UNCHANGED <<issued, inCookie, manager, session>>

\* Mutant: the save ends without the dataset.expire call.
set_session_in_db_no_expire(h) ==
    /\ pc[h] = "written"
    /\ pc' = [pc EXCEPT ![h] = "ready"]
    /\ idle' = [idle EXCEPT ![sid[h]] = 0]
    /\ session' = [session EXCEPT ![h] = EmptySession]
    /\ cur' = [cur EXCEPT ![h] = NoCall]
    /\ last' = [NoOp EXCEPT !.h = h, !.op = cur[h].op, !.name = cur[h].name,
                   !.val = cur[h].val, !.calls = cur[h].calls]
    /\ UNCHANGED <<pycket_redis, pycket_cookies, store, nextId, issued,
                   inCookie, outCookie, manager, dataset, sid, minted, used>>

\* __set_session_in_db, last line: dataset.expire(session_id, EXPIRE_SECONDS);
\* then __change_session and the set or delete call return.
set_session_in_db_expire(h) ==
    /\ pc[h] = "written"
    /\ store' = RedisExpire(store, DbOf(h), sid[h], EXPIRE_SECONDS)
    /\ pc' = [pc EXCEPT ![h] = "ready"]
    /\ idle' = [idle EXCEPT ![sid[h]] = 0]
    /\ session' = [session EXCEPT ![h] = EmptySession]
    /\ cur' = [cur EXCEPT ![h] = NoCall]
    /\ last' = [NoOp EXCEPT !.h = h, !.op = cur[h].op, !.name = cur[h].name,
                   !.val = cur[h].val, !.names = cur[h].names,
                   !.calls = Append(cur[h].calls, Ok("expire"))]
    /\ UNCHANGED <<pycket_redis, pycket_cookies, nextId, issued, inCookie,
                   outCookie, manager, dataset, sid, minted, used>>

(* ------------------------- store calls that raise ---------------------- *)
\* No call of SessionManager has a try or an except: an exception raised by
\* dataset.get, dataset.set or dataset.expire leaves every frame of the call
\* and reaches the caller.

\* self.dataset.get raises, in any of the calls (all of them load first).
\* The identifier was resolved and the connection set up before it.
dataset_get_raises(h, op) ==
    /\ pc[h] = "ready"
    /\ SessionProperty(h)
    /\ GetSessionId(h)
    /\ SetupDataset(h)
    /\ last' = [NoOp EXCEPT !.h = h, !.op = op, !.err = StoreError,
                   !.calls = <<Raised("get")>>]
    /\ UNCHANGED <<store, issued, pc, inCookie, session, sid, cur, idle>>

\* Mutant: a dataset.set that raised is tried again.
dataset_set_raises_retry(h, applied) ==
    /\ pc[h] = "loaded"
    /\ GetSessionId(h)
    /\ SetupDataset(h)
    /\ store' = IF applied
                THEN RedisSet(store, DbOf(h), get_session_id(h),
                              dumps(session[h]))
                ELSE store
    /\ idle' = IF applied THEN [idle EXCEPT ![get_session_id(h)] = 0] ELSE idle
    /\ cur' = [cur EXCEPT ![h].calls = Append(@, Raised("set"))]
    /\ last' = NoOp
    /\ UNCHANGED <<issued, pc, inCookie, manager, session, sid>>

\* self.dataset.set raises: __set_session_in_db, __change_session and the
\* set or delete call are left, and dataset.expire is not reached.  A call
\* that timed out may have been applied by the server.
dataset_set_raises(h, applied) ==
    /\ pc[h] = "loaded"
    /\ GetSessionId(h)
    /\ SetupDataset(h)
    /\ store' = IF applied
                THEN RedisSet(store, DbOf(h), get_session_id(h),
                              dumps(session[h]))
                ELSE store
    /\ idle' = IF applied THEN [idle EXCEPT ![get_session_id(h)] = 0] ELSE idle
    /\ pc' = [pc EXCEPT ![h] = "ready"]
    /\ session' = [session EXCEPT ![h] = EmptySession]
    /\ cur' = [cur EXCEPT ![h] = NoCall]
    /\ last' = [NoOp EXCEPT !.h = h, !.op = cur[h].op, !.name = cur[h].name,
                   !.val = cur[h].val, !.err = StoreError,
                   !.calls = Append(cur[h].calls, Raised("set"))]
    /\ UNCHANGED <<issued, inCookie, manager, sid>>

\* self.dataset.expire raises, after dataset.set has written the record.
dataset_expire_raises(h, applied) ==
    /\ pc[h] = "written"
    /\ store' = IF applied
                THEN RedisExpire(store, DbOf(h), sid[h], EXPIRE_SECONDS)
                ELSE store
    /\ idle' = IF applied THEN [idle EXCEPT ![sid[h]] = 0] ELSE idle
    /\ pc' = [pc EXCEPT ![h] = "ready"]
    /\ session' = [session EXCEPT ![h] = EmptySession]
    /\ cur' = [cur EXCEPT ![h] = NoCall]
    /\ last' = [NoOp EXCEPT !.h = h, !.op = cur[h].op, !.name = cur[h].name,
                   !.val = cur[h].val, !.err = StoreError,
                   !.calls = Append(cur[h].calls, Raised("expire"))]
    /\ UNCHANGED <<pycket_redis, pycket_cookies, nextId, issued, inCookie,
                   outCookie, manager, dataset, sid, minted, used>>

(* -------------------------------- time --------------------------------- *)
\* Redis after TickSeconds: a TTL runs down, and the key goes when it is 0.
Age(rec) ==
    IF rec.present /\ rec.ttl # NoTTL
    THEN IF rec.ttl - TickSeconds <= 0
         THEN NoRecord ELSE [rec EXCEPT !.ttl = @ - TickSeconds]
    ELSE rec

Tick ==
    /\ store' = [d \in DBs |-> [i \in Ids |-> Age(store[d][i])]]
    /\ idle' = [i \in Ids |->
                  IF idle[i] = Never THEN Never
                  ELSE IF idle[i] + TickSeconds >= EXPIRE_SECONDS
                       THEN EXPIRE_SECONDS ELSE idle[i] + TickSeconds]
    /\ last' = NoOp
    /\ UNCHANGED <<pycket_redis, pycket_cookies, nextId, issued, pc,
                   inCookie, outCookie, manager, dataset, session, sid, cur,
                   minted, used>>

(* ----------------------------- specification --------------------------- *)
Next ==
    \/ \E h \in Handlers, c \in Ids \cup {NoCookie} : BeginRequest(h, c)
    \/ \E h \in Handlers : EndRequest(h)
    \/ \E h \in Handlers, name \in Keys, default \in Defaults :
           get(h, name, default)
    \/ \E h \in Handlers : keys(h)
    \/ \E h \in Handlers, key \in Keys : getitem(h, key)
    \/ \E h \in Handlers, key \in Keys : contains(h, key)
    \/ \E h \in Handlers, name \in Keys, value \in Values :
           set(h, name, value)
    \/ \E h \in Handlers, names \in NameTuples : delete(h, names)
    \/ \E h \in Handlers : set_session_in_db_set(h)
    \/ \E h \in Handlers : set_session_in_db_expire(h)
    \/ Tick

Spec == Init /\ [][Next]_vars

\* The same program under each of the configurations, one request at a time.
InitConfig ==
    /\ pycket_redis \in RedisConfigs
    /\ pycket_cookies = AppCookies
    /\ store = EmptyStore
    /\ nextId = PreIssued + 1
    /\ issued = 1 .. PreIssued
    /\ pc = [h \in Handlers |-> "none"]
    /\ inCookie = [h \in Handlers |-> NoCookie]
    /\ outCookie = [h \in Handlers |-> NoCookie]
    /\ manager = [h \in Handlers |-> NoManager]
    /\ dataset = [h \in Handlers |-> NoDataset]
    /\ session = [h \in Handlers |-> EmptySession]
    /\ sid = [h \in Handlers |-> NoCookie]
    /\ cur = [h \in Handlers |-> NoCall]
    /\ last = NoOp
    /\ minted = [h \in Handlers |-> 0]
    /\ used = [h \in Handlers |-> {}]
    /\ idle = [i \in Ids |-> Never]

OneAtATime ==
    \A g, h \in Handlers : g # h => pc[g] \in {"none", "done"}
                                     \/ pc[h] \in {"none", "done"}

NextConfig == Next /\ OneAtATime'

SpecConfig == InitConfig /\ [][NextConfig]_vars

\* The same program under every 'pycket_redis' dictionary over RedisKeys,
\* each key set or not, for the first request of a run.
AllRedisConfigs ==
    {[present |-> FALSE, d |-> NoDict]} \cup
    {[present |-> TRUE, d |-> Dict(db, dbs, dbn, host)] :
        db \in {Unset, 1}, dbs \in {Unset, 2}, dbn \in {Unset, 1},
        host \in {Unset, 7}}

InitSettings ==
    /\ pycket_redis \in AllRedisConfigs
    /\ pycket_cookies = AppCookies
    /\ store = EmptyStore
    /\ nextId = PreIssued + 1
    /\ issued = 1 .. PreIssued
    /\ pc = [h \in Handlers |-> "none"]
    /\ inCookie = [h \in Handlers |-> NoCookie]
    /\ outCookie = [h \in Handlers |-> NoCookie]
    /\ manager = [h \in Handlers |-> NoManager]
    /\ dataset = [h \in Handlers |-> NoDataset]
    /\ session = [h \in Handlers |-> EmptySession]
    /\ sid = [h \in Handlers |-> NoCookie]
    /\ cur = [h \in Handlers |-> NoCall]
    /\ last = NoOp
    /\ minted = [h \in Handlers |-> 0]
    /\ used = [h \in Handlers |-> {}]
    /\ idle = [i \in Ids |-> Never]

FirstRequestOnly == pc[Arrival[2]] = "none"

NextSettings == Next /\ FirstRequestOnly'

SpecSettings == InitSettings /\ [][NextSettings]_vars

\* The same program with a Redis server whose calls may raise, for the
\* first request of a run.
RaisingCalls ==
    \/ \E h \in Handlers, op \in Reads \cup {"set", "delete"} :
           dataset_get_raises(h, op)
    \/ \E h \in Handlers, applied \in BOOLEAN : dataset_set_raises(h, applied)
    \/ \E h \in Handlers, applied \in BOOLEAN :
           dataset_expire_raises(h, applied)

NextRaises == (Next \/ RaisingCalls) /\ FirstRequestOnly'

SpecRaises == Init /\ [][NextRaises]_vars

\* The same program with its requests one after the other, and no time
\* passing while a set or delete call is between its load and its return.
InCall == \E h \in Handlers : pc[h] \in {"loaded", "written"}

NextSequence == Next /\ OneAtATime' /\ (InCall => pc' # pc)

SpecSequence == Init /\ [][NextSequence]_vars

(* ------------------------------- claims -------------------------------- *)
\* The record a dataset holds under a key, for the handler's connection.
Stored(h, key) == RedisGet(store, dataset[h].params["db"], key)

\* C1: identifier resolution runs at most once per Session Handle and is
\* cached for the handle's lifetime: whatever the calls made on a handle, it
\* creates at most one identifier (so sets the cookie at most once), and all
\* its store accesses use one identifier.  Stated as the claim has it; the
\* code resolves the identifier anew in every store access.
C1_ResolvedOncePerHandle ==
    \A h \in Handlers : minted[h] <= 1 /\ Cardinality(used[h]) <= 1

\* C2: read-your-writes.  With no other writer (no other request has begun)
\* and no expiry in between (the get is the very next step), a get of a name
\* by the handle whose set of that name has just returned gives back the
\* value that was set.  Stated as the claim has it, for clients with and
\* without a cookie.
C2_GetReturnsLastSet ==
    [][ ( /\ last.op = "set"
          /\ last'.op = "get"
          /\ last'.h = last.h
          /\ last'.name = last.name
          /\ \A g \in Handlers \ {last.h} : pc[g] = "none" )
        => last'.val = last.val ]_vars

\* C3: unguarded last-writer-wins.  Every save writes the whole dict the
\* request holds in memory, whatever the store held: the record after
\* dataset.set is exactly that dict, pickled, and nothing of what another
\* request saved since this one loaded is kept.
C3_SaveWritesWholeMapping ==
    [][ \A h \in Handlers :
          pc[h] = "loaded" /\ pc'[h] = "written"
          => LET rec == store'[dataset'[h].params["db"]][sid'[h]]
             IN  rec.present /\ rec.raw = dumps(session[h]) ]_vars

\* C3's case: two requests with the same cookie both loaded before either
\* saved; h saved its set first, g saved last, and the record is g's dict,
\* without the name h set.
C3_LostUpdate ==
    \E g, h \in Handlers :
        /\ g # h
        /\ inCookie[g] # NoCookie /\ inCookie[g] = inCookie[h]
        /\ pc[g] = "written" /\ pc[h] = "written"
        /\ cur[g].op = "set" /\ cur[h].op = "set"
        /\ cur[g].name # cur[h].name
        /\ session[h][cur[h].name] = cur[h].val
        /\ session[g][cur[h].name] = Missing
        /\ Stored(g, sid[g]).raw = dumps(session[g])
        /\ to_dict(Stored(g, sid[g]))[cur[h].name] = Missing

\* C4: idempotent read.  A step in which get, __getitem__, __contains__ or
\* keys returns changes no record of the store: not its existence, not its
\* bytes and not its TTL.
C4_ReadsLeaveStoreUnchanged ==
    [][ last'.op \in Reads => store' = store ]_vars

\* C4's case: a read has just returned for a session whose record exists
\* with half of its countdown gone.
C4_ReadOfAgeingRecord ==
    /\ last.op \in Reads
    /\ inCookie[last.h] # NoCookie
    /\ Stored(last.h, inCookie[last.h]).present
    /\ Stored(last.h, inCookie[last.h]).ttl = TickSeconds

\* C5: lazy creation.  When a read returns to a client that sent no cookie,
\* it has seen an empty session (get gives the default, keys is empty,
\* contains is false, the subscript raises KeyError), no dataset holds a
\* record under the identifier it used, and the identifier cookie is set.
C5_NewClientReads ==
    last.op \in Reads /\ inCookie[last.h] = NoCookie
    => /\ outCookie[last.h] \in Ids
       /\ outCookie[last.h] \in used[last.h]
       /\ \A d \in DBs : ~store[d][outCookie[last.h]].present
       /\ last.op = "get" => last.val = last.default
       /\ last.op = "keys" => last.ks = {}
       /\ last.op = "contains" => last.val = "False"
       /\ last.op = "getitem" => last.err = "KeyError"

\* C5's case: a client without a cookie has just read, while the store
\* holds the record of another session.
C5_NewClientHasRead ==
    /\ last.op = "keys"
    /\ inCookie[last.h] = NoCookie
    /\ \E d \in DBs, i \in Ids : store[d][i].present

\* C6: TTL refresh on every mutation.  When set or delete returns (its
\* dataset.expire has been made), the record of the identifier it saved
\* under exists and its TTL is 86,400 seconds.  Stated as the claim has it.
C6_CompletedMutationHasFullTTL ==
    [][ \A h \in Handlers :
          pc[h] = "written" /\ pc'[h] = "ready"
          => LET rec == store'[dataset'[h].params["db"]][sid'[h]]
             IN  rec.present /\ rec.ttl = 86400 ]_vars

C8_DeleteNeverErrors ==
    last.op = "delete" => last.err = "none"

\* C9: the subscript read raises KeyError only for a key that is not in the
\* session: for a key that is in it, whatever its value (None too), it
\* returns that value; and get never raises.  Stated as the claim has it.
C9_SubscriptReturnsPresentKey ==
    /\ ( last.op = "getitem" /\ last.expect # Missing )
       => last.err = "none" /\ last.val = last.expect
    /\ last.op = "get" => last.err = "none"

\* The dataset the configuration selects for sessions: 'db_sessions' when
\* it is set, dataset 0 when it is not.
SessionsDataset ==
    IF pycket_redis.present /\ pycket_redis.d["db_sessions"] # Unset
    THEN pycket_redis.d["db_sessions"] ELSE 0

\* C10: namespace isolation.  Whatever the configuration and the session
\* operations made, no dataset other than the one selected for sessions
\* holds a record (so nothing written for a session shows through a sibling
\* that uses another dataset, under any key), and every connection a
\* SessionManager has opened is to the sessions dataset.
C10_OnlySessionsDataset ==
    /\ \A d \in DBs \ {SessionsDataset} : \A i \in Ids : ~store[d][i].present
    /\ \A h \in Handlers :
          dataset[h].open => dataset[h].params["db"] = SessionsDataset

\* C10's case: the sibling's dataset and a generic 'db' are configured and
\* differ from the sessions dataset, and a session record has been written.
C10_SessionWrittenBesideSibling ==
    /\ pycket_redis.present
    /\ pycket_redis.d["db_notifications"] \in DBs \ {SessionsDataset}
    /\ \E i \in Ids :
          /\ store[SessionsDataset][i].present
          /\ ~store[pycket_redis.d["db_notifications"]][i].present

\* C11: first write by a client without a cookie.  When the one set(name,
\* value) call of such a request returns, the cookie on the response is the
\* identifier ID1 the dict was saved under; the record at ID1 holds exactly
\* {name: value} with a TTL of 86,400 seconds; no other identifier the
\* request used has a record; and when no request came before, the store
\* holds that one record and no other.
C11_FirstWriteOfNewClient ==
    ( last.op = "set" /\ inCookie[last.h] = NoCookie /\ minted[last.h] = 2 )
    => LET h == last.h
           ID1 == outCookie[h]
       IN  /\ ID1 \in Ids /\ ID1 = sid[h]
           /\ Stored(h, ID1).present
           /\ loads(Stored(h, ID1).raw) =
                 [EmptySession EXCEPT ![last.name] = last.val]
           /\ Stored(h, ID1).ttl = 86400
           /\ \A d \in DBs, i \in used[h] \ {ID1} : ~store[d][i].present
           /\ ( \A g \in Handlers \ {h} : pc[g] = "none" )
              => Cardinality({<<d, i>> \in DBs \X Ids : store[d][i].present})
                   = 1

\* C11's case: the first request of the run came without a cookie and its
\* only call, a set, has just returned.
C11_NewClientHasSet ==
    /\ last.op = "set" /\ last.val = "x"
    /\ inCookie[last.h] = NoCookie
    /\ minted[last.h] = 2
    /\ \A g \in Handlers \ {last.h} : pc[g] = "none"

CallTraces == {last.calls} \cup {cur[h].calls : h \in Handlers}

\* C13: error propagation without retry.  A store call that raised is the
\* last store call of its SessionManager call: that call has ended, with the
\* error given to the caller and nothing of it left in progress; no call
\* makes the same store call twice; and a step in which the load
\* (dataset.get) of a call raised leaves every record and TTL as it was.
C13_StoreErrorEndsTheCall ==
    [][ /\ \A h \in Handlers : \A n \in DOMAIN cur'[h].calls :
              cur'[h].calls[n][2] = "ok"
        /\ \A n \in DOMAIN last'.calls :
              last'.calls[n][2] = "raised"
              => /\ n = Len(last'.calls)
                 /\ last'.err = StoreError
                 /\ pc'[last'.h] = "ready"
                 /\ cur'[last'.h] = NoCall
        /\ last'.err = StoreError
           => last'.calls[Len(last'.calls)][2] = "raised"
        /\ \A t \in {last'.calls} \cup {cur'[h].calls : h \in Handlers} :
              \A m, n \in DOMAIN t : t[m][1] = t[n][1] => m = n
        /\ last'.calls = <<Raised("get")>> => store' = store ]_vars

\* C13's case: the load of a set raised for a session that has a record in
\* the store with half of its countdown gone.
C13_LoadOfSetRaised ==
    /\ last.op = "set"
    /\ last.err = StoreError
    /\ last.calls = <<Raised("get")>>
    /\ inCookie[last.h] # NoCookie
    /\ Stored(last.h, inCookie[last.h]).present
    /\ Stored(last.h, inCookie[last.h]).ttl = TickSeconds

\* C14: no orphaned records.  Whenever the request of a client that sent no
\* cookie is between two calls (so could end here), every record that
\* exists under an identifier the request used is under the identifier of
\* the cookie now set on the response.  Stated as the claim has it; the
\* code takes a new identifier in every store access.
C14_NoOrphanedRecords ==
    \A h \in Handlers :
        ( pc[h] = "ready" /\ inCookie[h] = NoCookie )
        => \A i \in used[h], d \in DBs :
              store[d][i].present => i = outCookie[h]

\* C15: load, mutate, save as a refinement of a dictionary.  For a request
\* with a valid cookie, with no other request under way and no expiry
\* during the call, every set and delete call leaves in the store the
\* mapping a dictionary would hold after the same operation on the mapping
\* stored before the call: set(name, value) changes the entry of name only,
\* delete(*names) removes the given names.  This is so where the call saves
\* and where the call ends without saving.  Stated as the claim has it.
C15_StoredMappingFollowsDict ==
    [][ \A h \in Handlers :
          inCookie[h] # NoCookie
          => LET before == to_dict(store[DbOf(h)][inCookie[h]])
                 after  == to_dict(store'[DbOf(h)][inCookie[h]])
                 dict_set(s, name, value) == [s EXCEPT ![name] = value]
                 dict_delete(s, names) ==
                     [k \in Keys |->
                        IF \E n \in DOMAIN names : names[n] = k
                        THEN Missing ELSE s[k]]
             IN  /\ ( pc[h] = "loaded" /\ pc'[h] = "written"
                      /\ cur[h].op = "set" )
                    => after = dict_set(before, cur[h].name, cur[h].val)
                 /\ ( pc[h] = "loaded" /\ pc'[h] = "written"
                      /\ cur[h].op = "delete" )
                    => after = dict_delete(before, cur[h].names)
                 /\ ( pc[h] = "written" /\ pc'[h] = "ready" )
                    => after = before
                 /\ ( pc[h] = "ready" /\ pc'[h] = "ready" /\ last'.h = h
                      /\ last'.op = "delete" )
                    => after = dict_delete(before, last'.names) ]_vars

\* C16: every session record carries an expiration.  In every state, also
\* between the dataset.set and the dataset.expire of a save, each record
\* that exists has a TTL, of at most 86,400 seconds.  Stated as the claim
\* has it; the code writes the record and sets its TTL in two store calls.
C16_EveryRecordHasTTL ==
    \A d \in DBs, i \in Ids :
        store[d][i].present
        => store[d][i].ttl # NoTTL /\ store[d][i].ttl \in 1 .. 86400

\* C17: session operations leave the application's configuration as it
\* was.  No step changes the 'pycket_redis' or the 'pycket_cookies' mapping
\* of the application settings: no key is added and no value replaced.
\* Stated as the claim has it; the code assigns 'db' and sets the defaults
\* of 'expires' and 'expires_days' in the application's own dictionaries.
C17_SettingsUnchanged ==
    [][ pycket_redis' = pycket_redis /\ pycket_cookies' = pycket_cookies ]_vars

\* C18: one Session Handle per request.  Every access to handler.session
\* gives the SessionManager that the first access constructed for that
\* handler: once a handler has one, it keeps that very instance until the
\* request ends; the instance is bound to the handler (constructed with
\* it), is the only one ever constructed for it, and no two handlers have
\* the same instance.
C18_OneManagerPerHandler ==
    [][ /\ \A h \in Handlers :
              /\ ( manager[h] # NoManager /\ pc'[h] # "done" )
                 => manager'[h] = manager[h]
              /\ manager'[h] # NoManager
                 => manager'[h].handler = h /\ manager'[h].n = 1
        /\ \A g, h \in Handlers :
              ( g # h /\ manager'[g] # NoManager ) => manager'[g] # manager'[h]
      ]_vars

\* C18's case: a call that began with a further access to handler.session
\* has just returned: the handler, of a request without a cookie, has taken
\* an identifier in an earlier call and another in this one, and has the
\* SessionManager constructed at its first access.
C18_AccessedAgain ==
    \E h \in Handlers :
        /\ manager[h] = [handler |-> h, n |-> 1]
        /\ inCookie[h] = NoCookie
        /\ minted[h] >= 2
        /\ last.h = h /\ last.op \in Reads

\* C19: the connection to the store is constructed once per process and
\* then shared.  A redis.Redis is constructed (a SessionManager's dataset
\* goes from None to a connection) only when no SessionManager of the
\* process has a connection yet.  Stated as the claim has it; the code
\* keeps the connection in an attribute of each SessionManager instance.
C19_ConnectionConstructedOnce ==
    [][ \A h \in Handlers :
          ( ~dataset[h].open /\ dataset'[h].open )
          => \A g \in Handlers \ {h} : ~dataset[g].open ]_vars
====
